---- MODULE Spec2Model ----
(***************************************************************************)
(* State-machine model of dslinter's DataFrameChecker                      *)
(* (src/dslinter/checkers/dataframe.py) and of the reveal_type insertion   *)
(* exercised by src/dslinter/test/util/test_type_inference.py.             *)
(*                                                                         *)
(* astroid nodes are records whose fields are the node's Python           *)
(* attributes, so hasattr(node, "a") is  "a" \in DOMAIN node.  A node's    *)
(* identity is its path from the Module node; node.parent is the path     *)
(* without its last step.                                                  *)
(***************************************************************************)
EXTENDS Integers, Sequences, FiniteSets, TLC

VARIABLES call_types, tree, unit, pos, pc, messages, code, targets, result

vars == <<call_types, tree, unit, pos, pc, messages, code, targets, result>>

checkerVars == <<call_types, tree, unit, pos, pc, messages>>

revealVars == <<code, targets, result>>

(***************************************************************************)
(* Bounds.                                                                 *)
(***************************************************************************)
\* Number of analysis units (modules) one run of the linter visits.
MaxUnits == 2

\* Number of statements in a loop body.
MaxBody == 2

\* Number of characters of a source text given to add_reveal_type_calls.
MaxCode == 4

\* Number of target expressions given to add_reveal_type_calls.
MaxTargets == 2

(***************************************************************************)
(* Python values and astroid nodes.                                        *)
(***************************************************************************)
\* A Python constant; py is its literal.
Py(lit) == [kind |-> "py", py |-> lit]

None == [kind |-> "NoneType"]

PyList(elts) == [kind |-> "list", elts |-> elts]

Name(n) == [kind |-> "Name", name |-> n]

AssignName(n) == [kind |-> "AssignName", name |-> n]

Const(lit) == [kind |-> "Const", value |-> Py(lit)]

Attribute(e, a) == [kind |-> "Attribute", expr |-> e, attrname |-> a]

AssignAttr(e, a) == [kind |-> "AssignAttr", expr |-> e, attrname |-> a]

Subscript(v, s) == [kind |-> "Subscript", value |-> v, slice |-> s]

Tuple(elts) == [kind |-> "Tuple", elts |-> elts]

Keyword(a, v) == [kind |-> "Keyword", arg |-> a, value |-> v]

Call(f, args, kws) == [kind |-> "Call", func |-> f, args |-> args, keywords |-> kws]

Expr(v) == [kind |-> "Expr", value |-> v]

Assign(ts, v) == [kind |-> "Assign", targets |-> ts, value |-> v]

AnnAssign(t, a, v) == [kind |-> "AnnAssign", target |-> t, annotation |-> a, value |-> v]

AugAssign(t, v) == [kind |-> "AugAssign", target |-> t, op |-> "+=", value |-> v]

If(t, b) == [kind |-> "If", test |-> t, body |-> b, orelse |-> <<>>]

For(t, i, b) == [kind |-> "For", target |-> t, iter |-> i, body |-> b, orelse |-> <<>>]

Module(b) == [kind |-> "Module", name |-> "unit", body |-> b]

NoTree == [kind |-> "NoTree"]

\* hasattr(obj, attr)
hasattr(obj, attr) == attr \in DOMAIN obj

\* isinstance(obj, astroid.nodes.<cls>)
isinstance(obj, cls) == obj.kind = cls

\* bool(obj): the falsy constants are False, None, 0 and ""; a node is an
\* object without __bool__ or __len__, hence true.
Truthy(obj) ==
    IF obj.kind = "py" THEN obj.py \notin {"False", "None", "0", "''"}
    ELSE obj.kind # "NoneType"

(***************************************************************************)
(* Paths: a step names a child field and, for a list field, the index.     *)
(***************************************************************************)
Step(f, i) == [f |-> f, i |-> i]

Child(node, s) ==
    IF s.i = 0 THEN node[s.f]
    ELSE IF s.f = "keywords" THEN node.keywords.elts[s.i]
    ELSE node[s.f][s.i]

RECURSIVE NodeAt(_, _)
NodeAt(root, path) ==
    IF path = <<>> THEN root
    ELSE NodeAt(Child(root, Head(path)), Tail(path))

ParentPath(path) == SubSeq(path, 1, Len(path) - 1)

\* The child steps of a node, in astroid's get_children() order.
ListSteps(f, n) == [i \in 1..n |-> Step(f, i)]

ChildSteps(node) ==
    CASE node.kind = "Module" -> ListSteps("body", Len(node.body))
      [] node.kind = "Expr" -> <<Step("value", 0)>>
      [] node.kind = "Assign" ->
            ListSteps("targets", Len(node.targets)) \o <<Step("value", 0)>>
      [] node.kind = "AnnAssign" ->
            <<Step("target", 0), Step("annotation", 0), Step("value", 0)>>
      [] node.kind = "AugAssign" -> <<Step("target", 0), Step("value", 0)>>
      [] node.kind = "If" ->
            <<Step("test", 0)>> \o ListSteps("body", Len(node.body))
      [] node.kind = "For" ->
            <<Step("target", 0), Step("iter", 0)>>
               \o ListSteps("body", Len(node.body))
      [] node.kind = "Call" ->
            <<Step("func", 0)>> \o ListSteps("args", Len(node.args))
               \o (IF node.keywords.kind = "list"
                   THEN ListSteps("keywords", Len(node.keywords.elts))
                   ELSE <<>>)
      [] node.kind = "Keyword" -> <<Step("value", 0)>>
      [] node.kind \in {"Attribute", "AssignAttr"} -> <<Step("expr", 0)>>
      [] node.kind = "Subscript" -> <<Step("value", 0), Step("slice", 0)>>
      [] node.kind = "Tuple" -> ListSteps("elts", Len(node.elts))
      [] OTHER -> <<>>

\* The paths of all nodes below (and including) path, in pre-order: the order
\* in which the AST walker calls the visit_* callbacks.
RECURSIVE PreOrder(_, _)
RECURSIVE PreOrderList(_, _, _)
PreOrder(root, path) ==
    <<path>> \o PreOrderList(root, path, ChildSteps(NodeAt(root, path)))

PreOrderList(root, path, steps) ==
    IF steps = <<>> THEN <<>>
    ELSE PreOrder(root, Append(path, Head(steps)))
            \o PreOrderList(root, path, Tail(steps))

\* The nodes for which the checker defines a callback, in visiting order.
VisitOrder(root) ==
    LET Handled(p) == NodeAt(root, p).kind \in {"Call", "For"}
    IN  SelectSeq(PreOrder(root, <<>>), Handled)

(***************************************************************************)
(* Results of Python evaluation: a value, or a raised exception.           *)
(***************************************************************************)
Ret(v) == [raised |-> FALSE, val |-> v]

Raise(e) == [raised |-> TRUE, exc |-> e]

DataFrame == "pandas.core.frame.DataFrame"

Series == "pandas.core.series.Series"

TypeNames == {DataFrame, Series}

\* The identity of the node at path p of the unit being traversed.
Key(p) == <<unit, p>>

\* Variant: a node the map does not hold counts as a DataFrame.
IsTypedDataFrame_absent_matches(ct, k) ==
    IF k \in DOMAIN ct THEN ct[k] = DataFrame ELSE TRUE

\* node in self._call_types and self._call_types[node] == "pandas...DataFrame"
IsTypedDataFrame(ct, k) ==
    IF k \in DOMAIN ct THEN ct[k] = DataFrame ELSE FALSE

(***************************************************************************)
(* DataFrameChecker, the pure parts.                                       *)
(***************************************************************************)
\* lambda x: x.func.expr.name  (the receiver extractor given to infer_types)
ReceiverName(node) ==
    IF ~hasattr(node.func, "expr") THEN Raise("AttributeError")
    ELSE IF ~hasattr(node.func.expr, "name") THEN Raise("AttributeError")
    ELSE Ret(node.func.expr.name)

is_simple_call_node(root, p) ==
    LET node == NodeAt(root, p)
        parent == NodeAt(root, ParentPath(p))
    IN  /\ hasattr(node.func, "expr")
        /\ hasattr(node.func.expr, "name")
        /\ ~isinstance(parent, "Attribute")
        /\ ~isinstance(parent, "Call")

\* keyword.value.value
KeywordValueValue(keyword) ==
    IF hasattr(keyword.value, "value") THEN Ret(keyword.value.value)
    ELSE Raise("AttributeError")

RECURSIVE InplaceLoop(_)
InplaceLoop(keywords) ==
    IF keywords = <<>> THEN Ret(Py("False"))
    ELSE IF Head(keywords).arg = "inplace" THEN KeywordValueValue(Head(keywords))
    ELSE InplaceLoop(Tail(keywords))

is_inplace_operation(node) ==
    IF node.keywords.kind = "NoneType" THEN Ret(Py("False"))
    ELSE InplaceLoop(node.keywords.elts)

\* Python's `and` chain, left to right: the in-place test runs only for a
\* call typed as a DataFrame, and before the parent test.
dataframe_is_lost(ct, root, p) ==
    LET node == NodeAt(root, p)
        parent == NodeAt(root, ParentPath(p))
        inplace == is_inplace_operation(node)
    IN  IF ~IsTypedDataFrame(ct, Key(p)) THEN Ret(FALSE)
        ELSE IF inplace.raised THEN inplace
        ELSE IF Truthy(inplace.val) THEN Ret(FALSE)
        ELSE Ret(isinstance(parent, "Expr"))

\* node in node.parent.body, by object identity
InParentBody(root, p) ==
    LET parent == NodeAt(root, ParentPath(p))
    IN  \E i \in 1..Len(parent.body) : Append(ParentPath(p), Step("body", i)) = p

iterating_through_dataframe(ct, root, p) ==
    LET parent == NodeAt(root, ParentPath(p))
    IN  /\ isinstance(parent, "For")
        /\ ~InParentBody(root, p)
        /\ IsTypedDataFrame(ct, Key(p))

Message(msgid, p) == [msgid |-> msgid, node |-> p]

\* visit_call: the messages added and the exception raised, if any.
visit_call(ct, root, p) ==
    LET lost == IF is_simple_call_node(root, p)
                THEN dataframe_is_lost(ct, root, p)
                ELSE Ret(FALSE)
    IN  IF lost.raised THEN [msgs |-> <<>>, exc |-> lost.exc]
        ELSE [msgs |-> (IF lost.val
                        THEN <<Message("dataframe-lost", p)>> ELSE <<>>)
                       \o (IF iterating_through_dataframe(ct, root, p)
                           THEN <<Message("dataframe-iteration", p)>> ELSE <<>>),
              exc |-> ""]

RECURSIVE TupleTargets(_)
TupleTargets(elts) ==
    IF elts = <<>> THEN <<>>
    ELSE (IF isinstance(Head(elts), "AssignName")
          THEN <<Head(elts).name>> ELSE <<>>) \o TupleTargets(Tail(elts))

\* Variant: a tuple target contributes no name.
get_for_targets_single_only(node) ==
    IF isinstance(node.target, "AssignName") THEN <<node.target.name>> ELSE <<>>

get_for_targets(node) ==
    IF isinstance(node.target, "Tuple") THEN TupleTargets(node.target.elts)
    ELSE IF isinstance(node.target, "AssignName") THEN <<node.target.name>>
    ELSE <<>>

\* Variant: a target without a name yields an empty name instead of raising.
RECURSIVE get_target_name_silent(_)
get_target_name_silent(target) ==
    IF hasattr(target, "name") THEN Ret(target.name)
    ELSE IF hasattr(target, "value") THEN get_target_name_silent(target.value)
    ELSE Ret("")

RECURSIVE get_target_name(_)
get_target_name(target) ==
    IF hasattr(target, "name") THEN Ret(target.name)
    ELSE IF hasattr(target, "value") THEN get_target_name(target.value)
    ELSE Raise("Exception")

\* The names of a list of targets, or the first exception.
RECURSIVE TargetNames(_)
TargetNames(ts) ==
    IF ts = <<>> THEN Ret(<<>>)
    ELSE LET first == get_target_name(Head(ts))
             rest == TargetNames(Tail(ts))
         IN  IF first.raised THEN first
             ELSE IF rest.raised THEN rest
             ELSE Ret(<<first.val>> \o rest.val)

\* The targets get_assigned_target_names looks at, in body order.
RECURSIVE BodyTargets(_)
BodyTargets(body) ==
    IF body = <<>> THEN <<>>
    ELSE (IF isinstance(Head(body), "Assign") THEN Head(body).targets
          ELSE IF isinstance(Head(body), "AnnAssign") THEN <<Head(body).target>>
          ELSE <<>>) \o BodyTargets(Tail(body))

get_assigned_target_names(node) == TargetNames(BodyTargets(node.body))

Range(s) == {s[i] : i \in 1..Len(s)}

\* visit_for: the messages added and the exception raised, if any.
visit_for(ct, root, p) ==
    LET node == NodeAt(root, p)
        for_targets == get_for_targets(node)
        assigned == get_assigned_target_names(node)
    IN  IF ~(/\ isinstance(node.iter, "Call")
             /\ IsTypedDataFrame(ct, Key(Append(p, Step("iter", 0)))))
        THEN [msgs |-> <<>>, exc |-> ""]
        ELSE IF assigned.raised THEN [msgs |-> <<>>, exc |-> assigned.exc]
        ELSE IF Range(assigned.val) \cap Range(for_targets) # {}
        THEN [msgs |-> <<Message("dataframe-iteration-modification", p)>>,
              exc |-> ""]
        ELSE [msgs |-> <<>>, exc |-> ""]

(***************************************************************************)
(* The analysis units given to the checker.                                *)
(***************************************************************************)
KwInplace(v) == PyList(<<Keyword("inplace", v)>>)

\* The keywords attribute of a call: None or [] without keyword arguments.
KeywordChoices ==
    { None,
      PyList(<<>>),
      KwInplace(Const("True")),
      KwInplace(Const("False")),
      KwInplace(Const("None")),
      KwInplace(Const("0")),
      KwInplace(Const("1")),
      KwInplace(Const("''")),
      KwInplace(Const("'s'")),
      KwInplace(Name("flag")),
      KwInplace(Subscript(Name("cfg"), Const("'k'"))),
      PyList(<<Keyword("axis", Const("1"))>>),
      PyList(<<Keyword("axis", Const("1")), Keyword("inplace", Const("True"))>>) }

\* recv.attr(**kws)
MethodCall(recv, attr, kws) == Call(Attribute(Name(recv), attr), <<>>, kws)

SimpleStatements ==
    \* df.f(...)
    { Expr(MethodCall("df", "f", k)) : k \in KeywordChoices }
    \* x = df.f(...)
    \cup { Assign(<<AssignName("x")>>, MethodCall("df", "f", k)) :
             k \in KeywordChoices }
    \* x: T = df.f()       df.f(...).g()
    \cup { AnnAssign(AssignName("x"), Name("T"), MethodCall("df", "f", None)) }
    \cup { Expr(Call(Attribute(MethodCall("df", "f", k), "g"), <<>>, None)) :
             k \in {None, KwInplace(Const("True"))} }
    \* print(df.f())       df.f(df.g())      f()
    \cup { Expr(Call(Name("print"), <<MethodCall("df", "f", None)>>, None)),
           Expr(Call(Attribute(Name("df"), "f"),
                     <<MethodCall("df", "g", None)>>, None)),
           Expr(Call(Name("f"), <<>>, None)) }

One == Const("1")

BodyStatements ==
    { \* row = 1        y = 1        y = row = 1
      Assign(<<AssignName("row")>>, One),
      Assign(<<AssignName("y")>>, One),
      Assign(<<AssignName("y"), AssignName("row")>>, One),
      \* row['x'] = 1        row['x']['y'] = 1
      Assign(<<Subscript(Name("row"), Const("'x'"))>>, One),
      Assign(<<Subscript(Subscript(Name("row"), Const("'x'")), Const("'y'"))>>,
             One),
      \* row.x = 1        row.x['y'] = 1
      Assign(<<AssignAttr(Name("row"), "x")>>, One),
      Assign(<<Subscript(Attribute(Name("row"), "x"), Const("'y'"))>>, One),
      \* h()[0] = 1
      Assign(<<Subscript(Call(Name("h"), <<>>, None), Const("0"))>>, One),
      \* row: T = 1
      AnnAssign(AssignName("row"), Name("T"), One),
      \* df.g()        print(row)
      Expr(MethodCall("df", "g", None)),
      Expr(Call(Name("print"), <<Name("row")>>, None)),
      \* if c: row = 1        row += 1
      If(Name("c"), <<Assign(<<AssignName("row")>>, One)>>),
      AugAssign(AssignName("row"), One) }

\* The statements that come before the last one of a longer body.
LeadingStatements ==
    { \* y = 1        h()[0] = 1
      Assign(<<AssignName("y")>>, One),
      Assign(<<Subscript(Call(Name("h"), <<>>, None), Const("0"))>>, One) }

\* Bodies of 1..MaxBody statements.
Bodies ==
    UNION { { lead \o <<last>> : lead \in [1..(n - 1) -> LeadingStatements],
                                 last \in BodyStatements } : n \in 1..MaxBody }

\* <<target, iter>> of the loops
LoopHeads ==
    { <<AssignName("row"), MethodCall("df", "iterrows", None)>>,
      <<Tuple(<<AssignName("i"), AssignName("row")>>),
        MethodCall("df", "iterrows", None)>>,
      <<Tuple(<<AssignName("i"), Subscript(Name("row"), Const("0"))>>),
        MethodCall("df", "iterrows", None)>>,
      <<AssignAttr(Name("self"), "row"), MethodCall("df", "iterrows", None)>>,
      <<AssignName("row"), MethodCall("df", "f", KwInplace(Name("flag")))>>,
      <<AssignName("row"), Name("df")>> }

Units ==
    { Module(<<s>>) : s \in SimpleStatements }
    \cup { Module(<<For(h[1], h[2], b)>>) : h \in LoopHeads, b \in Bodies }

(***************************************************************************)
(* TypeInference.infer_types(module, Call, extractor).                     *)
(***************************************************************************)
CallPaths(root) ==
    { p \in Range(PreOrder(root, <<>>)) : NodeAt(root, p).kind = "Call" }

\* The calls whose receiver the extractor names; the others are skipped.
Classifiable(root) ==
    { p \in CallPaths(root) : ~ReceiverName(NodeAt(root, p)).raised }

\* What one inference call can give for a unit: a type name for any of the
\* classifiable calls (by path), or an operational failure of the type
\* checker, which is not run for a unit without calls.
InferOutcomes(root) ==
    { Ret(m) : m \in UNION { [S -> TypeNames] : S \in SUBSET Classifiable(root) } }
    \cup (IF CallPaths(root) = {} THEN {} ELSE {Raise("OSError")})

\* The units with each outcome of their inference call.
Inferences == UNION { { <<root, o>> : o \in InferOutcomes(root) } : root \in Units }

\* The map keyed by the nodes of unit u.
infer_types(u, m) == [k \in {<<u, p>> : p \in DOMAIN m} |-> m[k[2]]]

EmptyMap == [k \in {} |-> DataFrame]

\* Variant: the inferred entries are added to the map already held.
MergedCallTypes(old, inferred) == inferred @@ old

\* self._call_types = <inferred>: the map held before is dropped.
NewCallTypes(old, inferred) == inferred

(***************************************************************************)
(* TypeInference.add_reveal_type_calls(code, nodes, extractor).  A text   *)
(* is a sequence of characters; a target is the line of a node and what   *)
(* the extractor gives for it.                                             *)
(***************************************************************************)
NL == "\n"

\* "; reveal_type(<name>)", character by character
Directive(n) ==
    <<";", " ", "r", "e", "v", "e", "a", "l", "_", "t", "y", "p", "e", "(">>
       \o <<n>> \o <<")">>

Line(content, ending) == [content |-> content, ending |-> ending]

\* The lines of a text, each with its line end ("\n", or nothing for a last
\* line that is not terminated).
RECURSIVE SplitLines(_, _)
SplitLines(text, content) ==
    IF text = <<>> THEN (IF content = <<>> THEN <<>> ELSE <<Line(content, <<>>)>>)
    ELSE IF Head(text) = NL
    THEN <<Line(content, <<NL>>)>> \o SplitLines(Tail(text), <<>>)
    ELSE SplitLines(Tail(text), Append(content, Head(text)))

RECURSIVE JoinLines(_)
JoinLines(lines) ==
    IF lines = <<>> THEN <<>>
    ELSE Head(lines).content \o Head(lines).ending \o JoinLines(Tail(lines))

\* The directive of one target is appended to the content of its line; a
\* target whose extractor raises is skipped.
RECURSIVE AppendDirectives(_, _)
AppendDirectives(lines, ts) ==
    IF ts = <<>> THEN lines
    ELSE LET t == Head(ts)
             next == IF t.receiver.raised THEN lines
                     ELSE [lines EXCEPT ![t.lineno].content =
                                           @ \o Directive(t.receiver.val)]
         IN  AppendDirectives(next, Tail(ts))

\* Variant: each directive is put on a line of its own after the target's.
RECURSIVE AppendDirectives_own_line(_, _)
AppendDirectives_own_line(lines, ts) ==
    IF ts = <<>> THEN lines
    ELSE LET t == Head(ts)
             next == IF t.receiver.raised THEN lines
                     ELSE [lines EXCEPT ![t.lineno].content =
                                           @ \o <<NL>> \o Directive(t.receiver.val)]
         IN  AppendDirectives_own_line(next, Tail(ts))

add_reveal_type_calls_own_line(text, ts) ==
    JoinLines(AppendDirectives_own_line(SplitLines(text, <<>>), ts))

add_reveal_type_calls(text, ts) ==
    JoinLines(AppendDirectives(SplitLines(text, <<>>), ts))

Target(lineno, receiver) == [lineno |-> lineno, receiver |-> receiver]

\* test_add_reveal_type_calls and test_add_reveal_type_calls_multiple:
\* the text, the targets and the text expected.
TestSingle ==
    [ code |-> <<"a", " ", "=", " ", "b", ".", "c", "(", "d", ")">>,
      targets |-> <<Target(1, Ret("b"))>>,
      expected |-> <<"a", " ", "=", " ", "b", ".", "c", "(", "d", ")", ";", " ",
                "r", "e", "v", "e", "a", "l", "_", "t", "y", "p", "e", "(",
                "b", ")">> ]

TestMultiple ==
    [ code |-> <<"a", " ", "=", " ", "b", ".", "c", "(", "d", ")", "\n",
                "x", " ", "=", " ", "5", " ", "\n", "e", " ", "=", " ", "f",
                ".", "g", "(", ")">>,
      targets |-> <<Target(1, Ret("b")), Target(3, Ret("f"))>>,
      expected |-> <<"a", " ", "=", " ", "b", ".", "c", "(", "d", ")", ";", " ",
                "r", "e", "v", "e", "a", "l", "_", "t", "y", "p", "e", "(",
                "b", ")", "\n", "x", " ", "=", " ", "5", " ", "\n", "e", " ",
                "=", " ", "f", ".", "g", "(", ")", ";", " ", "r", "e", "v",
                "e", "a", "l", "_", "t", "y", "p", "e", "(", "f", ")">> ]

Alphabet == {"a", " ", NL}

Texts == UNION { [1..n -> Alphabet] : n \in 0..MaxCode }

Receivers == {Ret("b"), Ret("f"), Raise("AttributeError")}

\* The targets of a text with n lines, in source order.
TargetLists(n) ==
    { ts \in UNION { [1..k -> {Target(l, r) : l \in 1..n, r \in Receivers}] :
                       k \in 0..MaxTargets } :
        \A j \in 1..(Len(ts) - 1) : ts[j].lineno <= ts[j + 1].lineno }

NotCalled == [done |-> FALSE, text |-> <<>>]

InitReveal ==
    /\ call_types = EmptyMap
    /\ tree = NoTree
    /\ unit = 0
    /\ pos = 0
    /\ pc = "idle"
    /\ messages = <<>>
    /\ result = NotCalled
    /\ \/ /\ code \in Texts
          /\ targets \in TargetLists(Len(SplitLines(code, <<>>)))
       \/ \E t \in {TestSingle, TestMultiple} :
             code = t.code /\ targets = t.targets

AddRevealTypeCalls ==
    /\ ~result.done
    /\ result' = [done |-> TRUE, text |-> add_reveal_type_calls(code, targets)]
    /\ UNCHANGED <<code, targets>>
    /\ UNCHANGED checkerVars

NextReveal == AddRevealTypeCalls

SpecReveal == InitReveal /\ [][NextReveal]_vars

(***************************************************************************)
(* The checker as a state machine.                                         *)
(***************************************************************************)
Init ==
    /\ call_types = EmptyMap
    /\ tree = NoTree
    /\ unit = 0
    /\ pos = 0
    /\ pc = "idle"
    /\ messages = <<>>
    /\ code = <<>>
    /\ targets = <<>>
    /\ result = NotCalled

\* visit_module: the one inference call of the unit; when it raises, the
\* assignment to self._call_types does not happen.
VisitModule ==
    /\ pc = "idle"
    /\ unit < MaxUnits
    /\ \E c \in Inferences :
          /\ tree' = c[1]
          /\ unit' = unit + 1
          /\ messages' = <<>>
          /\ IF c[2].raised
             THEN /\ call_types' = call_types
                  /\ pc' = "error"
                  /\ pos' = 0
             ELSE /\ call_types' =
                     NewCallTypes(call_types, infer_types(unit + 1, c[2].val))
                  /\ pc' = "visiting"
                  /\ pos' = 1
    /\ UNCHANGED revealVars

AtNode(kind) ==
    /\ pc = "visiting"
    /\ pos <= Len(VisitOrder(tree))
    /\ NodeAt(tree, VisitOrder(tree)[pos]).kind = kind

\* A callback has run: its messages are added, and an exception ends the
\* traversal of the unit.
Callback(r) ==
    /\ messages' = messages \o r.msgs
    /\ IF r.exc = ""
       THEN pos' = pos + 1 /\ pc' = pc
       ELSE pos' = pos /\ pc' = "error"
    /\ UNCHANGED <<call_types, tree, unit>>
    /\ UNCHANGED revealVars

VisitCall ==
    /\ AtNode("Call")
    /\ Callback(visit_call(call_types, tree, VisitOrder(tree)[pos]))

VisitFor ==
    /\ AtNode("For")
    /\ Callback(visit_for(call_types, tree, VisitOrder(tree)[pos]))

\* The traversal of the unit is over; the linter goes on to the next unit.
LeaveModule ==
    /\ \/ pc = "error"
       \/ pc = "visiting" /\ pos > Len(VisitOrder(tree))
    /\ pc' = "idle"
    /\ tree' = NoTree
    /\ pos' = 0
    /\ messages' = <<>>
    /\ UNCHANGED <<call_types, unit>>
    /\ UNCHANGED revealVars

Next == VisitModule \/ VisitCall \/ VisitFor \/ LeaveModule

Spec == Init /\ [][Next]_vars

(***************************************************************************)
(* Vocabulary of the properties.  These definitions state what the         *)
(* documentation says; none of them is used by the actions.                *)
(***************************************************************************)
Order == VisitOrder(tree)

\* The callback of the i-th visited node returned / raised / ran.
Returned(i) == pc \in {"visiting", "error"} /\ i < pos

RaisedAt(i) == pc = "error" /\ i = pos

Ran(i) == Returned(i) \/ RaisedAt(i)

HasMessage(msgid, p) == \E j \in 1..Len(messages) : messages[j] = Message(msgid, p)

\* The map classifies the node at p as the tracked type.
TypedDF(p) ==
    /\ <<unit, p>> \in DOMAIN call_types
    /\ call_types[<<unit, p>>] = "pandas.core.frame.DataFrame"

\* a.f(...): the call is made on a plain name.
PlainReceiver(node) ==
    /\ node.func.kind = "Attribute"
    /\ node.func.expr.kind = "Name"

\* The call carries a keyword argument inplace whose value is the literal True.
LiteralInplace(node) ==
    /\ node.keywords.kind = "list"
    /\ \E j \in 1..Len(node.keywords.elts) :
          LET kw == node.keywords.elts[j]
          IN  /\ kw.arg = "inplace"
              /\ kw.value.kind = "Const"
              /\ kw.value.value = Py("True")

\* The call at p is the iterable clause of a loop.
IsIterable(p) == p # <<>> /\ p[Len(p)] = Step("iter", 0)

\* The call at p is a.f() in a.f().g(), or the whole of a.f().g().
InChain(p) ==
    LET node == NodeAt(tree, p)
    IN  \/ NodeAt(tree, ParentPath(p)).kind = "Attribute"
        \/ node.func.kind = "Attribute" /\ node.func.expr.kind = "Call"

\* The names bound by the target clause of a loop.
BoundNames(loop) ==
    IF loop.target.kind = "Tuple"
    THEN { loop.target.elts[j].name :
             j \in { k \in 1..Len(loop.target.elts) :
                       loop.target.elts[k].kind = "AssignName" } }
    ELSE IF loop.target.kind = "AssignName" THEN {loop.target.name}
    ELSE {}

\* Some / every target of a plain or annotated assignment in the immediate
\* body of the loop satisfies P.
SomeTarget(loop, P(_)) ==
    \E s \in 1..Len(loop.body) :
       LET b == loop.body[s]
       IN  \/ b.kind = "Assign" /\ \E k \in 1..Len(b.targets) : P(b.targets[k])
           \/ b.kind = "AnnAssign" /\ P(b.target)

EveryTarget(loop, P(_)) ==
    LET NotP(t) == ~P(t)
    IN  ~SomeTarget(loop, NotP)

\* The target, its wrapped value, the value wrapped by that one, ...
RECURSIVE ValueChain(_)
ValueChain(t) ==
    <<t>> \o (IF "value" \in DOMAIN t THEN ValueChain(t.value) ELSE <<>>)

\* The names found along the chain of wrapped values (at most one: a node
\* with a name ends the search).
ChainNames(t) ==
    LET chain == ValueChain(t)
        named == { j \in 1..Len(chain) : "name" \in DOMAIN chain[j] }
    IN  { chain[j].name : j \in { k \in named : \A l \in named : k <= l } }

NoNamedRoot(t) == ChainNames(t) = {}

\* The named root of a target as documented: through the value of a
\* subscript and through the object of an attribute access.
RECURSIVE RootNames(_)
RootNames(t) ==
    IF "name" \in DOMAIN t THEN {t.name}
    ELSE IF t.kind = "Subscript" THEN RootNames(t.value)
    ELSE IF t.kind \in {"Attribute", "AssignAttr"} THEN RootNames(t.expr)
    ELSE {}

\* The i-th visited node is a loop whose iterable is a call of tracked type.
TrackedLoop(i) ==
    LET p == Order[i]
        loop == NodeAt(tree, p)
    IN  /\ loop.kind = "For"
        /\ loop.iter.kind = "Call"
        /\ TypedDF(Append(p, Step("iter", 0)))

(***************************************************************************)
(* Properties.                                                             *)
(***************************************************************************)
\* C1: a call a.f(...) on a plain name of tracked type that is not in-place
\* gets a dataframe-lost finding when it stands alone as a statement; the
\* value of an assignment gets none, and neither call of a chain a.f().g()
\* gets one.
C1_LostResultByPosition ==
    \A i \in 1..Len(Order) :
       LET p == Order[i]
           node == NodeAt(tree, p)
           parent == NodeAt(tree, ParentPath(p))
       IN  (Ran(i) /\ node.kind = "Call") =>
              /\ ( /\ PlainReceiver(node)
                   /\ TypedDF(p)
                   /\ ~LiteralInplace(node)
                   /\ parent.kind = "Expr" ) => HasMessage("dataframe-lost", p)
              /\ parent.kind \in {"Assign", "AnnAssign"}
                    => ~HasMessage("dataframe-lost", p)
              /\ InChain(p) => ~HasMessage("dataframe-lost", p)

\* C2: a call is treated as in-place exactly when it has a keyword inplace
\* with the literal True; for every other call the test completes without
\* error and a statement call of tracked type is flagged.
C2_InplaceOnlyLiteralTrue ==
    \A i \in 1..Len(Order) :
       LET p == Order[i]
           node == NodeAt(tree, p)
           parent == NodeAt(tree, ParentPath(p))
           inplace == is_inplace_operation(node)
       IN  (Ran(i) /\ node.kind = "Call") =>
              /\ ~inplace.raised
              /\ Truthy(inplace.val) <=> LiteralInplace(node)
              /\ (PlainReceiver(node) /\ TypedDF(p) /\ parent.kind = "Expr") =>
                    /\ Returned(i)
                    /\ HasMessage("dataframe-lost", p) <=> ~LiteralInplace(node)

\* C3: the iterable call of a loop, when of tracked type, gets a
\* dataframe-iteration finding from its visit; a call of tracked type that is
\* not an iterable clause gets none.
C3_IterationOnIterableOnly ==
    \A i \in 1..Len(Order) :
       LET p == Order[i]
       IN  (Ran(i) /\ NodeAt(tree, p).kind = "Call" /\ TypedDF(p)) =>
              (HasMessage("dataframe-iteration", p) <=> IsIterable(p))

\* C4: a loop over a call of tracked type gets a
\* dataframe-iteration-modification finding exactly when a name bound by its
\* target is the name assigned by a plain or annotated assignment of its
\* immediate body.
C4_ModificationIffReassigned ==
    \A i \in 1..Len(Order) :
       LET p == Order[i]
           loop == NodeAt(tree, p)
           Reassigns(t) == ChainNames(t) \cap BoundNames(loop) # {}
       IN  (Ran(i) /\ TrackedLoop(i)) =>
              (HasMessage("dataframe-iteration-modification", p)
                 <=> SomeTarget(loop, Reassigns))

\* C4 as amended: the same, provided every such target has a name on its
\* chain of wrapped values; when one has none, visit_for raises and the loop
\* gets no finding.
C4_ModificationIffReassignedOrRaise ==
    \A i \in 1..Len(Order) :
       LET p == Order[i]
           loop == NodeAt(tree, p)
           Reassigns(t) == ChainNames(t) \cap BoundNames(loop) # {}
       IN  (Ran(i) /\ TrackedLoop(i)) =>
              IF SomeTarget(loop, NoNamedRoot)
              THEN RaisedAt(i) /\ ~HasMessage("dataframe-iteration-modification", p)
              ELSE /\ Returned(i)
                   /\ HasMessage("dataframe-iteration-modification", p)
                        <=> SomeTarget(loop, Reassigns)

\* C4 witness: a loop with a tuple target whose body reassigns a bound name
\* has been visited and flagged.
C4_Witness ==
    \E i \in 1..Len(Order) :
       LET p == Order[i]
           loop == NodeAt(tree, p)
       IN  /\ Returned(i)
           /\ TrackedLoop(i)
           /\ loop.target.kind = "Tuple"
           /\ HasMessage("dataframe-iteration-modification", p)

\* C5: an attribute or subscript target is unwrapped to its named root, so a
\* loop of tracked type whose body assigns to row.x or row['x'], row being
\* bound by the loop, is flagged.  (Loops in which every target has a named
\* root, so that no error is called for.)
C5_AttributeAndSubscriptRoots ==
    \A i \in 1..Len(Order) :
       LET p == Order[i]
           loop == NodeAt(tree, p)
           Rooted(t) == RootNames(t) # {}
           Unwraps(t) == \A n \in RootNames(t) : get_target_name(t) = Ret(n)
           Mutates(t) == /\ t.kind \in {"AssignAttr", "Subscript"}
                         /\ RootNames(t) \cap BoundNames(loop) # {}
       IN  (Ran(i) /\ TrackedLoop(i) /\ EveryTarget(loop, Rooted)) =>
              /\ EveryTarget(loop, Unwraps)
              /\ SomeTarget(loop, Mutates)
                    => HasMessage("dataframe-iteration-modification", p)

\* C7: when the inference call of a unit fails, the map is empty (no entry
\* of an earlier unit is kept) and the unit has no finding.
C7_FailedInferenceEmptiesMap ==
    (pc = "error" /\ pos = 0) => (call_types = EmptyMap /\ messages = <<>>)

\* C8: when a loop of tracked type has, in its immediate body, a plain or
\* annotated assignment whose target has no name along its chain of wrapped
\* values, visit_for raises and the loop gets no finding; _get_target_name
\* ends with a name or with that error.
C8_UnresolvableTargetRaises ==
    \A i \in 1..Len(Order) :
       LET p == Order[i]
           loop == NodeAt(tree, p)
           NameOrError(t) == \/ get_target_name(t) = Raise("Exception")
                             \/ \E n \in ChainNames(t) : get_target_name(t) = Ret(n)
       IN  (Ran(i) /\ loop.kind = "For") =>
              /\ EveryTarget(loop, NameOrError)
              /\ (TrackedLoop(i) /\ SomeTarget(loop, NoNamedRoot)) =>
                    /\ RaisedAt(i)
                    /\ ~HasMessage("dataframe-iteration-modification", p)

\* C8 witness: visit_for has raised on a loop whose body assigns to h()[0].
C8_Witness ==
    \E i \in 1..Len(Order) :
       LET loop == NodeAt(tree, Order[i])
           OnCall(t) == t.kind = "Subscript" /\ t.value.kind = "Call"
       IN  RaisedAt(i) /\ TrackedLoop(i) /\ SomeTarget(loop, OnCall)

\* C9: only the module visit changes the map, replacing it by entries of
\* the unit it enters; while a unit is traversed every entry of the map is
\* one of that unit's nodes.
C9_MapLifecycle ==
    /\ [](pc = "visiting" => \A k \in DOMAIN call_types : k[1] = unit)
    /\ [][call_types' # call_types =>
             /\ pc = "idle" /\ pc' = "visiting"
             /\ \A k \in DOMAIN call_types' : k[1] = unit']_vars

\* C9 witness: a later unit is being traversed with a map that holds entries.
C9_Witness ==
    /\ pc = "visiting"
    /\ unit > 1
    /\ pos > 1
    /\ call_types # EmptyMap

\* C10: a finding is only ever attached to a node the map classifies as the
\* tracked type (the call for dataframe-lost and dataframe-iteration, the
\* loop over such a call for dataframe-iteration-modification), the node has
\* been visited, and no finding is emitted twice.
C10_FindingsOnlyOnClassified ==
    \A j \in 1..Len(messages) :
       LET m == messages[j]
           node == NodeAt(tree, m.node)
       IN  /\ \A k \in 1..Len(messages) : messages[k] = m => k = j
           /\ \E i \in 1..Len(Order) : Order[i] = m.node /\ Ran(i)
           /\ IF m.msgid = "dataframe-iteration-modification"
              THEN /\ node.kind = "For"
                   /\ node.iter.kind = "Call"
                   /\ TypedDF(Append(m.node, Step("iter", 0)))
              ELSE /\ m.msgid \in {"dataframe-lost", "dataframe-iteration"}
                   /\ node.kind = "Call"
                   /\ TypedDF(m.node)

\* C10 witness: a unit has been traversed to its end with a finding on one
\* call and none on a call that the map types as something else.
C10_Witness ==
    /\ pc = "visiting"
    /\ pos > Len(Order)
    /\ messages # <<>>
    /\ \E i \in 1..Len(Order) :
          /\ NodeAt(tree, Order[i]).kind = "Call"
          /\ <<unit, Order[i]>> \in DOMAIN call_types
          /\ call_types[<<unit, Order[i]>>] = "pandas.core.series.Series"

\* The lines of a text as a reader counts them: line k runs from after the
\* (k-1)-th line end up to the k-th one, or to the end of the text.
NewLines(text) == { i \in 1..Len(text) : text[i] = "\n" }

NumLines(text) ==
    Cardinality(NewLines(text))
       + (IF text # <<>> /\ text[Len(text)] # "\n" THEN 1 ELSE 0)

NthNewLine(text, k) ==
    IF k = 0 THEN 0
    ELSE IF k > Cardinality(NewLines(text)) THEN Len(text) + 1
    ELSE CHOOSE i \in NewLines(text) :
            Cardinality({ j \in NewLines(text) : j <= i }) = k

LineText(text, k) ==
    SubSeq(text, NthNewLine(text, k - 1) + 1, NthNewLine(text, k) - 1)

\* The directives expected on line k, in the order of the targets.
RECURSIVE ExpectedSuffix(_, _)
ExpectedSuffix(ts, k) ==
    IF ts = <<>> THEN <<>>
    ELSE (IF Head(ts).lineno = k /\ ~Head(ts).receiver.raised
          THEN Directive(Head(ts).receiver.val) ELSE <<>>)
            \o ExpectedSuffix(Tail(ts), k)

\* The number of places of a text where "; reveal_type(" starts.
Directives(text) ==
    Cardinality({ i \in 1..(Len(text) - 13) :
                    SubSeq(text, i, i + 13) = SubSeq(Directive("b"), 1, 14) })

NamedTargets == { j \in 1..Len(targets) : ~targets[j].receiver.raised }

\* C6: the rewritten text has the lines of the source text, in number and in
\* order; a line hosting no target is unchanged, a line hosting targets is
\* the original line followed by "; reveal_type(<receiver>)" once per target
\* with a named receiver, and the directives added are as many as those
\* targets.  The two texts of the test suite give the texts it expects.
C6_LinePreservingInsertion ==
    result.done =>
       /\ NumLines(result.text) = NumLines(code)
       /\ \A k \in 1..NumLines(code) :
             LineText(result.text, k)
                = LineText(code, k) \o ExpectedSuffix(targets, k)
       /\ Directives(result.text) = Directives(code) + Cardinality(NamedTargets)
       /\ \A t \in {TestSingle, TestMultiple} :
             (code = t.code /\ targets = t.targets) => result.text = t.expected

\* C6 witness: a text of several lines has been rewritten with two named
\* targets on one line and a line ending in a blank that hosts none.
C6_Witness ==
    /\ result.done
    /\ NumLines(code) > 1
    /\ Cardinality(NamedTargets) = 2
    /\ targets[1].lineno = targets[2].lineno
    /\ \E k \in 1..NumLines(code) :
          /\ \A j \in 1..Len(targets) : targets[j].lineno # k
          /\ LineText(code, k) # <<>>
          /\ LineText(code, k)[Len(LineText(code, k))] = " "

====
